---- MODULE Spec2Model ----
(***************************************************************************)
(* ElisaConcCalc (momcal.py): a Tk application that fits a four-parameter  *)
(* logistic curve to (concentration, OD) pairs, inverts it for measured OD *)
(* samples, lists the results in a table and keeps the table in data.json. *)
(*                                                                         *)
(* Two specifications:                                                     *)
(*   Spec       the application: App.__init__, the three button handlers   *)
(*              and the end of the session (mainloop returning);           *)
(*   SpecModel  the two pure functions of the 4PL model, applied in turn   *)
(*              to inputs drawn from bounded sets.                         *)
(*                                                                         *)
(* Numbers are exact rationals <<n, d>> (d > 0, lowest terms) extended     *)
(* with the IEEE values the numpy float64 arithmetic of the program        *)
(* produces instead of raising: <<1,0>> = inf, <<-1,0>> = -inf,            *)
(* <<0,0>> = nan.  "Equal within tolerance" is equality of rationals.      *)
(***************************************************************************)
EXTENDS Integers, Sequences, FiniteSets, TLC

VARIABLES
    phase,          \* "off" | "running" | "crashed": the process
    concentration_entry,  \* text of the concentration entry, split at commas
    OD_entry,       \* text of the OD entry, split at commas
    concentration,  \* self.concentration: None or the parsed list
    OD,             \* self.OD: None or the parsed list
    A, B, C, D,     \* self.A .. self.D: None or a number
    table,          \* rows of self.table (Treeview), each <<text, text>>
    file,           \* data.json on disk
    canvas,         \* what the embedded chart shows
    window,         \* the fit the last event drew in a separate window, or None
    dialog,         \* error dialog shown by the last event ("none" if none)
    uncaught,       \* exception that left the last handler ("none" if none)
    last,           \* the last event: a handler, typing, start or close
    x, y, xr, mpc   \* SpecModel: input, model value, inverted value, position

vars == <<phase, concentration_entry, OD_entry, concentration, OD, A, B, C, D,
          table, file, canvas, window, dialog, uncaught, last, x, y, xr, mpc>>

appVars == <<phase, concentration_entry, OD_entry, concentration, OD, table,
             file, canvas, window, dialog, uncaught, last>>

----------------------------------------------------------------------------
(* Bounds *)

MaxLen == 4       \* longest comma-separated list typed into an entry
MaxRows == 2      \* rows added to the table in one session
MaxX == 3         \* SpecModel: x in -MaxX..MaxX
MaxC == 2         \* SpecModel: C in -MaxC..MaxC
MaxB == 2         \* SpecModel: B in -MaxB..MaxB
MaxAsym == 2      \* SpecModel: A, D in 0..MaxAsym

\* Python's None.  Parsed lists are never empty and numbers are pairs, so
\* the empty tuple is distinct from every value a field can hold.
None == <<>>

----------------------------------------------------------------------------
(* float64 arithmetic on extended rationals *)

Inf == <<1, 0>>
NegInf == <<-1, 0>>
NaN == <<0, 0>>

AbsInt(n) == IF n < 0 THEN -n ELSE n

SignInt(n) == IF n < 0 THEN -1 ELSE IF n > 0 THEN 1 ELSE 0

RECURSIVE GCD(_, _)
GCD(a, b) == IF b = 0 THEN a ELSE GCD(b, a % b)

Norm(n, d) ==
    IF d = 0 THEN <<SignInt(n), 0>>
    ELSE LET g == GCD(AbsInt(n), AbsInt(d))
             s == SignInt(d)
         IN  <<(s * n) \div g, (s * d) \div g>>

Rat(n) == <<n, 1>>

IsFinite(a) == a[2] # 0

IsNaN(a) == a = NaN

Neg(a) == <<-a[1], a[2]>>

Abs(a) == <<AbsInt(a[1]), a[2]>>

Add(a, b) ==
    IF IsFinite(a) /\ IsFinite(b) THEN Norm(a[1] * b[2] + b[1] * a[2], a[2] * b[2])
    ELSE IF IsNaN(a) \/ IsNaN(b) THEN NaN
    ELSE IF ~IsFinite(a) /\ ~IsFinite(b) THEN (IF a = b THEN a ELSE NaN)
    ELSE IF ~IsFinite(a) THEN a ELSE b

Sub(a, b) == Add(a, Neg(b))

Mul(a, b) == Norm(a[1] * b[1], a[2] * b[2])

\* 1/a; 1/0 is inf (x - x is +0.0), 1/inf is 0.
Recip(a) ==
    IF a[1] = 0 THEN (IF a[2] = 0 THEN NaN ELSE Inf)
    ELSE IF a[1] > 0 THEN <<a[2], a[1]>>
    ELSE <<-a[2], -a[1]>>

Div(a, b) == Mul(a, Recip(b))

Less(a, b) == IsFinite(a) /\ IsFinite(b) /\ a[1] * b[2] < b[1] * a[2]

RECURSIVE PowNat(_, _)
PowNat(a, k) == IF k = 0 THEN Rat(1) ELSE Mul(a, PowNat(a, k - 1))

\* a ** k for an integer k
PowInt(a, k) == IF k >= 0 THEN PowNat(a, k) ELSE Recip(PowNat(a, -k))

\* Numerators and denominators tried for an exact k-th root.
MaxRoot == MaxX + MaxC + 1

RootNat(a, k) ==
    CHOOSE q \in {Norm(n, d) : n \in 0..MaxRoot, d \in 1..MaxRoot} : PowNat(q, k) = a

\* a ** (1 / k) for a >= 0 (or nan) and an integer k; 1 / 0.0 is inf.
PowRecip(a, k) ==
    IF k = 0 THEN
        IF IsNaN(a) THEN NaN
        ELSE IF a = Rat(1) THEN Rat(1)
        ELSE IF Less(a, Rat(1)) THEN Rat(0)
        ELSE Inf
    ELSE IF IsNaN(a) THEN NaN
    ELSE IF a = Inf THEN (IF k > 0 THEN Inf ELSE Rat(0))
    ELSE IF a = Rat(0) THEN (IF k > 0 THEN Rat(0) ELSE Inf)
    ELSE IF k = 1 THEN a
    ELSE IF k = -1 THEN Recip(a)
    ELSE IF k > 0 THEN RootNat(a, k)
    ELSE RootNat(Recip(a), -k)

----------------------------------------------------------------------------
(* The 4PL model *)

\* The exponent B is an integer-valued number <<k, 1>> throughout the model.

\* D + (A - D) / (1 + (x / C)**B)
four_param_logistic(xx, a, b, c, d) ==
    Add(d, Div(Sub(a, d), Add(Rat(1), PowInt(Div(xx, c), b[1]))))

\* The inverse with the exponent B where the code has 1 / B.
inverse_with_exponent_B(od, a, b, c, d) ==
    Mul(c, PowInt(Abs(Div(Sub(a, od), Sub(od, d))), b[1]))

\* C * np.abs((A - OD) / (OD - D))**(1 / B)
inverse_four_param_logistic(od, a, b, c, d) ==
    Mul(c, PowRecip(Abs(Div(Sub(a, od), Sub(od, d))), b[1]))

----------------------------------------------------------------------------
(* Values crossing Python, Tcl and JSON *)

\* A Tcl string is <<"f", r>>, the text str() gives a float (it always has
\* a '.', an 'e', or is inf/nan), or <<"i", r>>, a decimal integer literal.
\* A Python value is <<"float", r>>, <<"int", r>> or <<"str", text>>.
\* A JSON value is <<"jreal", r>>, <<"jint", r>> or <<"jstr", text>>.

\* ttk formats each value of values=(...) with str() on the way into Tcl.
TclText(v) ==
    IF v[1] = "float" THEN <<"f", v[2]>>
    ELSE IF v[1] = "int" THEN <<"i", v[2]>>
    ELSE v[2]

\* ttk._convert_stringval, applied by Treeview.item to every value: int(text)
\* if the text is an integer literal, the text itself otherwise.
ConvertStringval(text) ==
    IF text[1] = "i" THEN <<"int", text[2]>> ELSE <<"str", text>>

JsonDump(v) ==
    IF v[1] = "float" THEN <<"jreal", v[2]>>
    ELSE IF v[1] = "int" THEN <<"jint", v[2]>>
    ELSE <<"jstr", v[2]>>

JsonLoad(j) ==
    IF j[1] = "jreal" THEN <<"float", j[2]>>
    ELSE IF j[1] = "jint" THEN <<"int", j[2]>>
    ELSE <<"str", j[2]>>

\* data.json: <<"absent", <<>>>>, <<"malformed", <<>>>> or <<"json", rows>>.
Absent == <<"absent", <<>>>>
Malformed == <<"malformed", <<>>>>

\* self.table.item(row)["values"] for every row, as save_data collects them.
TableValues(tbl) ==
    [i \in 1..Len(tbl) |-> [j \in 1..Len(tbl[i]) |-> ConvertStringval(tbl[i][j])]]

\* self.table.insert("", tk.END, values=row)
TableInsert(tbl, row) ==
    Append(tbl, [j \in 1..Len(row) |-> TclText(row[j])])

RECURSIVE InsertAll(_, _)
InsertAll(tbl, data) ==
    IF Len(data) = 0 THEN tbl
    ELSE InsertAll(TableInsert(tbl, Head(data)), Tail(data))

\* save_data writing the newest row alone instead of the whole table.
save_last_row_only(tbl) ==
    LET data == TableValues(tbl)
    IN  <<"json", [i \in 1..(IF Len(data) = 0 THEN 0 ELSE 1) |->
                     [j \in 1..Len(data[Len(data)]) |-> JsonDump(data[Len(data)][j])]]>>

\* save_data: the file written from the table.
save_data(tbl) ==
    LET data == TableValues(tbl)
    IN  <<"json", [i \in 1..Len(data) |-> [j \in 1..Len(data[i]) |-> JsonDump(data[i][j])]]>>

\* load_data on an application whose table attribute exists (hasTable) or
\* not: <<exception, table>>.
load_data(hasTable, tbl, f) ==
    IF f = Absent THEN <<"none", tbl>>
    ELSE IF f = Malformed THEN <<"JSONDecodeError", tbl>>
    ELSE LET data == [i \in 1..Len(f[2]) |-> [j \in 1..Len(f[2][i]) |-> JsonLoad(f[2][i][j])]]
         IN  IF Len(data) = 0 THEN <<"none", tbl>>
             ELSE IF ~hasTable THEN <<"AttributeError", tbl>>
             ELSE <<"none", InsertAll(tbl, data)>>

----------------------------------------------------------------------------
(* Fitting and plotting *)

\* Free parameters of the model function: A, B, C, D.
NumParams == 4

\* What the solver can come back with on data it accepts.
NoConvergence == <<>>
FitResults ==
    { <<Rat(0), Rat(1), Rat(1), Rat(2)>>, <<Rat(2), Rat(-1), Rat(2), Rat(0)>> }

\* scipy.optimize.curve_fit(four_param_logistic, xdata, ydata) with the
\* default p0 and method 'lm': <<exception, params>>.  The residual is
\* f(xdata, *p) - ydata, so numpy broadcasting decides which shapes pass.
curve_fit(xdata, ydata, outcome) ==
    LET nx == Len(xdata)
        ny == Len(ydata)
        m == IF nx > ny THEN nx ELSE ny
    IN  IF ny # 1 /\ NumParams > ny THEN <<"TypeError", None>>
        ELSE IF nx # ny /\ nx # 1 /\ ny # 1 THEN <<"ValueError", None>>
        ELSE IF NumParams > m THEN <<"TypeError", None>>
        ELSE IF outcome = NoConvergence THEN <<"RuntimeError", None>>
        ELSE <<"none", outcome>>

fit_and_plot(conc, od, outcome) == curve_fit(conc, od, outcome)

\* plot_graph (module level): the exception it raises, "none" if it returns
\* a figure.
plot_graph(a, b, c, d, od, conc) ==
    IF conc = None THEN "TypeError"
    ELSE IF a = None \/ b = None \/ c = None \/ d = None THEN "TypeError"
    ELSE IF od = None THEN "TypeError"
    ELSE IF Len(od) # Len(conc) THEN "ValueError"
    ELSE "none"

----------------------------------------------------------------------------
(* Inputs *)

Num(v) == <<"num", v>>
Bad == <<"bad", 0>>

\* Lengths of the lists typed into the entries: a single value, enough
\* values for the solver (MaxLen >= NumParams), and one fewer.
Lens == {1, MaxLen - 1, MaxLen}

\* An entry left empty: ''.split(',') is [''], which float() rejects.
EmptyEntry == <<Bad>>

\* Text of an entry, split at the commas: a list of numbers (the number 1
\* repeated), or an item that float() rejects.
EntryTexts ==
    { [i \in 1..n |-> Num(1)] : n \in Lens } \cup { EmptyEntry }

\* np.array([float(value) for value in text.split(',')]): <<exception, list>>
ParseList(text) ==
    IF \E i \in 1..Len(text) : text[i] = Bad THEN <<"ValueError", None>>
    ELSE <<"none", [i \in 1..Len(text) |-> text[i][2]]>>

\* Answers to the askfloat dialog: None when cancelled.
ODSamples == { Rat(1), Rat(2) }

InitialFiles ==
    { Absent, Malformed, <<"json", <<>>>>,
      <<"json", << <<<<"jreal", <<1, 2>>>>, <<"jreal", Rat(12)>>>> >>>> }

----------------------------------------------------------------------------
(* The application *)

modelVars == <<x, y, xr, mpc>>

Init ==
    /\ phase = "off"
    /\ concentration_entry = EmptyEntry /\ OD_entry = EmptyEntry
    /\ concentration = None /\ OD = None
    /\ A = None /\ B = None /\ C = None /\ D = None
    /\ table = <<>>
    /\ file \in InitialFiles
    /\ canvas = "empty"
    /\ window = None
    /\ dialog = "none"
    /\ uncaught = "none"
    /\ last = "none"
    /\ x = None /\ y = None /\ xr = None /\ mpc = "idle"

\* App.__init__, run by the __main__ block.  load_data runs (line 56) before
\* the Treeview is created (line 70); an exception leaves __init__ and the
\* process ends before mainloop.
App_init ==
    /\ phase \in {"off", "crashed"}
    /\ LET loaded == load_data(FALSE, <<>>, file)
       IN  /\ phase' = IF loaded[1] = "none" THEN "running" ELSE "crashed"
           /\ uncaught' = loaded[1]
    /\ concentration_entry' = EmptyEntry /\ OD_entry' = EmptyEntry
    /\ concentration' = None /\ OD' = None
    /\ A' = None /\ B' = None /\ C' = None /\ D' = None
    /\ table' = <<>>
    /\ canvas' = "empty"
    /\ window' = None
    /\ dialog' = "none"
    /\ last' = "init"
    /\ UNCHANGED <<file, modelVars>>

\* The window is closed: mainloop returns and the process ends.
Close ==
    /\ phase = "running"
    /\ phase' = "off"
    /\ concentration_entry' = EmptyEntry /\ OD_entry' = EmptyEntry
    /\ concentration' = None /\ OD' = None
    /\ A' = None /\ B' = None /\ C' = None /\ D' = None
    /\ table' = <<>>
    /\ canvas' = "empty"
    /\ window' = None
    /\ dialog' = "none"
    /\ uncaught' = "none"
    /\ last' = "close"
    /\ UNCHANGED <<file, modelVars>>

\* The user edits the entries (lines 59-64); no handler runs.
type_concentration(text) ==
    /\ phase = "running"
    /\ concentration_entry' = text
    /\ window' = None /\ dialog' = "none" /\ uncaught' = "none"
    /\ last' = "typing"
    /\ UNCHANGED <<phase, OD_entry, concentration, OD, A, B, C, D, table, file,
                   canvas, modelVars>>

type_OD(text) ==
    /\ phase = "running"
    /\ OD_entry' = text
    /\ window' = None /\ dialog' = "none" /\ uncaught' = "none"
    /\ last' = "typing"
    /\ UNCHANGED <<phase, concentration_entry, concentration, OD, A, B, C, D,
                   table, file, canvas, modelVars>>

\* fit_model clearing the parameters before it parses and fits, so that a
\* failure leaves them undefined.
FitModelResultClearing(outcome) ==
    LET cleared == <<None, None, None, None>>
        pc == ParseList(concentration_entry)
        po == ParseList(OD_entry)
    IN  IF pc[1] # "none" THEN <<pc[1], concentration, OD, cleared, canvas>>
        ELSE IF po[1] # "none" THEN <<po[1], pc[2], OD, cleared, canvas>>
        ELSE LET fit == fit_and_plot(pc[2], po[2], outcome)
             IN  IF fit[1] # "none" THEN <<fit[1], pc[2], po[2], cleared, canvas>>
                 ELSE LET p == fit[2]
                          drawn == plot_graph(p[1], p[2], p[3], p[4], po[2], pc[2])
                      IN  IF drawn # "none" THEN <<drawn, pc[2], po[2], p, canvas>>
                          ELSE <<"none", pc[2], po[2], p, "fit">>

\* The values fit_model leaves behind:
\* <<exception, concentration, OD, <<A, B, C, D>>, canvas>>.
FitModelResult(outcome) ==
    LET old == <<A, B, C, D>>
        pc == ParseList(concentration_entry)
        po == ParseList(OD_entry)
    IN  IF pc[1] # "none" THEN <<pc[1], concentration, OD, old, canvas>>
        ELSE IF po[1] # "none" THEN <<po[1], pc[2], OD, old, canvas>>
        ELSE LET fit == fit_and_plot(pc[2], po[2], outcome)
             IN  IF fit[1] # "none" THEN <<fit[1], pc[2], po[2], old, canvas>>
                 ELSE LET p == fit[2]
                          drawn == plot_graph(p[1], p[2], p[3], p[4], po[2], pc[2])
                      IN  IF drawn # "none" THEN <<drawn, pc[2], po[2], p, canvas>>
                          ELSE <<"none", pc[2], po[2], p, "fit">>

fit_model(outcome) ==
    /\ phase = "running"
    /\ LET r == FitModelResult(outcome)
       IN  /\ dialog' = r[1]
           /\ concentration' = r[2]
           /\ OD' = r[3]
           /\ A' = r[4][1] /\ B' = r[4][2] /\ C' = r[4][3] /\ D' = r[4][4]
           /\ canvas' = r[5]
    /\ window' = None
    /\ uncaught' = "none"
    /\ last' = "fit_model"
    /\ UNCHANGED <<phase, concentration_entry, OD_entry, table, file, modelVars>>

\* calculate_concentration inserting the row for the entered OD before it
\* computes the concentration.
CalculateResultInsertFirst(od) ==
    LET early == TableInsert(table, << <<"float", od>>, <<"float", od>> >>)
    IN  IF A = None \/ B = None \/ C = None \/ D = None
        THEN <<"TypeError", early, file, canvas>>
        ELSE LET sample == inverse_four_param_logistic(od, A, B, C, D)
                 drawn == plot_graph(A, B, C, D, OD, concentration)
             IN  IF drawn # "none" THEN <<drawn, early, file, canvas>>
                 ELSE LET tbl == TableInsert(table, << <<"float", od>>, <<"float", sample>> >>)
                      IN  <<"none", tbl, save_data(tbl), "sample">>

\* The values calculate_concentration leaves behind for an entered OD:
\* <<exception, table, file, canvas>>.
CalculateResult(od) ==
    IF A = None \/ B = None \/ C = None \/ D = None
    THEN <<"TypeError", table, file, canvas>>
    ELSE LET sample == inverse_four_param_logistic(od, A, B, C, D)
             drawn == plot_graph(A, B, C, D, OD, concentration)
         IN  IF drawn # "none" THEN <<drawn, table, file, canvas>>
             ELSE LET tbl == TableInsert(table, << <<"float", od>>, <<"float", sample>> >>)
                  IN  <<"none", tbl, save_data(tbl), "sample">>

calculate_concentration(input) ==
    /\ phase = "running"
    /\ Len(table) < MaxRows
    /\ IF input = None
       THEN /\ dialog' = "none"
            /\ last' = "cancelled"
            /\ UNCHANGED <<table, file, canvas>>
       ELSE LET r == CalculateResult(input)
            IN  /\ dialog' = r[1]
                /\ table' = r[2]
                /\ file' = r[3]
                /\ canvas' = r[4]
                /\ last' = "calculate_concentration"
    /\ window' = None
    /\ uncaught' = "none"
    /\ UNCHANGED <<phase, concentration_entry, OD_entry, concentration, OD,
                   A, B, C, D, modelVars>>

\* view_main_graph has no try/except: what plot_graph raises leaves the
\* handler (Tk prints the traceback); otherwise plt.show() opens the window.
view_main_graph ==
    /\ phase = "running"
    /\ LET drawn == plot_graph(A, B, C, D, OD, concentration)
       IN  /\ uncaught' = drawn
           /\ window' = IF drawn = "none" THEN <<A, B, C, D, OD, concentration>> ELSE None
    /\ dialog' = "none"
    /\ last' = "view_main_graph"
    /\ UNCHANGED <<phase, concentration_entry, OD_entry, concentration, OD,
                   A, B, C, D, table, file, canvas, modelVars>>

Next ==
    \/ App_init
    \/ Close
    \/ \E text \in EntryTexts : type_concentration(text)
    \/ \E text \in EntryTexts : type_OD(text)
    \/ \E outcome \in FitResults \cup {NoConvergence} : fit_model(outcome)
    \/ \E input \in ODSamples \cup {None} : calculate_concentration(input)
    \/ view_main_graph

Spec == Init /\ [][Next]_vars

----------------------------------------------------------------------------
(* The model functions on their own *)

InitModel ==
    /\ phase = "off"
    /\ concentration_entry = EmptyEntry /\ OD_entry = EmptyEntry
    /\ concentration = None /\ OD = None
    /\ table = <<>>
    /\ file = Absent
    /\ canvas = "empty"
    /\ window = None
    /\ dialog = "none"
    /\ uncaught = "none"
    /\ last = "none"
    /\ x \in {Rat(n) : n \in -MaxX..MaxX}
    /\ A \in {Rat(n) : n \in 0..MaxAsym}
    /\ B \in {Rat(n) : n \in -MaxB..MaxB}
    /\ C \in {Rat(n) : n \in -MaxC..MaxC}
    /\ D \in {Rat(n) : n \in 0..MaxAsym}
    /\ y = None /\ xr = None
    /\ mpc = "input"

Evaluate ==
    /\ mpc = "input"
    /\ y' = four_param_logistic(x, A, B, C, D)
    /\ mpc' = "evaluated"
    /\ UNCHANGED <<appVars, A, B, C, D, x, xr>>

Invert ==
    /\ mpc = "evaluated"
    /\ xr' = inverse_four_param_logistic(y, A, B, C, D)
    /\ mpc' = "inverted"
    /\ UNCHANGED <<appVars, A, B, C, D, x, y>>

NextModel == Evaluate \/ Invert

SpecModel == InitModel /\ [][NextModel]_vars

----------------------------------------------------------------------------
(* Properties *)

NoFit == A = None /\ B = None /\ C = None /\ D = None
Fitted == A # None /\ B # None /\ C # None /\ D # None

\* The file holds rows that save_data wrote: each cell a JSON string.
WrittenBySave(f) ==
    /\ f[1] = "json"
    /\ Len(f[2]) > 0
    /\ \A i \in 1..Len(f[2]) : \A j \in 1..Len(f[2][i]) : f[2][i][j][1] = "jstr"

\* Row i of the file decodes to what the table holds in row i.
FileHoldsTable(f, tbl) ==
    /\ f[1] = "json"
    /\ Len(f[2]) = Len(tbl)
    /\ \A i \in 1..Len(tbl) :
          /\ Len(f[2][i]) = Len(tbl[i])
          /\ \A j \in 1..Len(tbl[i]) : JsonLoad(f[2][i][j]) = ConvertStringval(tbl[i][j])

\* C1: after a start of the application with a data file that save_data
\* wrote in an earlier session, the application runs and its table holds
\* exactly the rows of the file, in the same order.
C1_SaveLoadRoundTrip ==
    (last = "init" /\ WrittenBySave(file)) =>
        (phase = "running" /\ FileHoldsTable(file, table))

\* C2: a calculate_concentration with an entered OD in the NoFit state shows
\* an error dialog, adds no row to the table and does not write the file.
C2_CalculateBeforeFit ==
    [][(phase = "running" /\ NoFit /\ last' = "calculate_concentration")
         => (dialog' # "none" /\ table' = table /\ file' = file)]_vars

C2_Witness ==
    /\ phase = "running" /\ NoFit
    /\ last = "calculate_concentration"
    /\ dialog = "TypeError"
    /\ table = <<>>

\* Both entries parse, to lists of different lengths.
MismatchedEntries ==
    /\ ParseList(concentration_entry)[1] = "none"
    /\ ParseList(OD_entry)[1] = "none"
    /\ Len(concentration_entry) # Len(OD_entry)

\* C3: a fit_model on entries that parse to lists of different lengths shows
\* an error dialog and leaves A, B, C, D as they were.
C3_MismatchedLengthsKeepParams ==
    [][(phase = "running" /\ MismatchedEntries /\ last' = "fit_model")
         => (dialog' # "none" /\ <<A, B, C, D>>' = <<A, B, C, D>>)]_vars

\* C4: a fit_model that fails (shows an error dialog) leaves the stored
\* series and the parameters as they were, and the stored series of a
\* fitted application are always two lists of equal length.
C4_FailedFitChangesNothing ==
    /\ [][(phase = "running" /\ last' = "fit_model" /\ dialog' # "none")
            => (concentration' = concentration /\ OD' = OD
                /\ <<A, B, C, D>>' = <<A, B, C, D>>)]_vars
    /\ [](Fitted => (concentration # None /\ OD # None /\ Len(concentration) = Len(OD)))

\* C5: view_main_graph raises nothing; in the NoFit state it opens no
\* window, in the Fitted state the window shows the last fit.
C5_ViewMainGraph ==
    last = "view_main_graph" =>
        /\ uncaught = "none"
        /\ NoFit => window = None
        /\ Fitted => window = <<A, B, C, D, OD, concentration>>

\* C6: no exception leaves a button handler: the only event an exception
\* escapes from is the start of the application (load_data).
C6_HandlersCatchEverything ==
    uncaught # "none" => last = "init"

StrictlyBetween(v, a, d) ==
    \/ Less(a, v) /\ Less(v, d)
    \/ Less(d, v) /\ Less(v, a)

\* C8 as stated: whenever the model value of x lies strictly between A and
\* D, inverting it gives x back.
C8_RoundTripAsStated ==
    (mpc = "inverted" /\ StrictlyBetween(y, A, D)) => xr = x

\* C8, amended: for B # 0 and x / C > 0, whenever the model value of x lies
\* strictly between A and D, inverting it gives x back.
C8_RoundTrip ==
    (mpc = "inverted" /\ B # Rat(0) /\ Less(Rat(0), Div(x, C))
        /\ StrictlyBetween(y, A, D)) => xr = x

C8_Witness ==
    /\ mpc = "inverted"
    /\ B = Rat(2) /\ C = Rat(2) /\ x = Rat(3)
    /\ StrictlyBetween(y, A, D)
    /\ xr = x

\* C9: A, B, C, D are all undefined or all defined; only fit_model defines
\* them; while the application runs, defined parameters stay defined.
C9_NoFitToFitted ==
    /\ [](NoFit \/ Fitted)
    /\ [][(NoFit /\ ~NoFit') => (last' = "fit_model" /\ Fitted')]_vars
    /\ [][(phase = "running" /\ phase' = "running" /\ Fitted) => Fitted']_vars

C9_Witness ==
    /\ phase = "running" /\ Fitted
    /\ canvas = "fit"
    /\ last = "fit_model" /\ dialog = "RuntimeError"

\* C10: a calculate_concentration with an entered OD in the Fitted state
\* appends exactly one row, the OD and its concentration; a cancelled one
\* adds and writes nothing; while the application runs no event changes or
\* removes a row the table holds.
C10_AppendOnly ==
    /\ [][(phase = "running" /\ Fitted /\ last' = "calculate_concentration")
            => \E od \in ODSamples :
                  table' = Append(table,
                      << <<"f", od>>,
                         <<"f", inverse_four_param_logistic(od, A, B, C, D)>> >>)]_vars
    /\ [][(phase = "running" /\ last' = "cancelled") => (table' = table /\ file' = file)]_vars
    /\ [][(phase = "running" /\ phase' = "running")
            => (Len(table') >= Len(table) /\ SubSeq(table', 1, Len(table)) = table)]_vars

====
